---- MODULE Spec2Model ----
(***************************************************************************)
(* Cycle Prediction Engine of humeshdeshmukh/auralie.                      *)
(*                                                                         *)
(* The state machine is backend/app/services/cycle_predictor.py            *)
(* (CyclePredictor: construction with _load_model, train, predict) over    *)
(* the three artifact files written and read by backend/app/core/          *)
(* ml_utils.py.  The two other copies of the engine, PredictService in     *)
(* backend/app/services/predict_service.py and CyclePredictor in           *)
(* aiml/cycle_prediction_model.py, run on the same variables: impl says    *)
(* which copy a behaviour exercises.                                       *)
(*                                                                         *)
(* Encoding.  A calendar date is its proleptic Gregorian ordinal (Python's *)
(* date.toordinal()); an ISO string is the triple <<year, month, day>>.    *)
(* A Python float that the code computes by a true division is the pair    *)
(* num/den with the flag is_float; np.std of a list is represented by the  *)
(* integer n*sum(x^2) - sum(x)^2, which determines it together with n.     *)
(* Dates are taken far from date.max, so date + timedelta never overflows. *)
(***************************************************************************)
EXTENDS Integers, Sequences, FiniteSets, TLC

VARIABLES
    cycles,       \* the history handed to train / predict by the caller
    today,        \* date.today()
    model,        \* CyclePredictor.model
    scaler,       \* CyclePredictor.scaler
    metadata,     \* CyclePredictor.metadata
    origin,       \* how the live instance was constructed
    disk,         \* the three artifact files
    env,          \* "faulty": a fit or a file write may raise; "concurrent":
                  \* a second request runs beside the caller's; "reliable": neither
    pc,           \* position of the running train call ("idle": none)
    saveFlag,     \* the save_model argument of the running train call
    testIdx,      \* the row train_test_split put in the test partition
    last,         \* the last completed call and what it returned or raised
    impl,         \* the copy of the engine the caller uses
    peer,         \* the CyclePredictor of another request sharing the files
    before        \* the files and the in-memory pair as the last train call
                  \* found them

vars == <<cycles, today, model, scaler, metadata, origin, disk, env, pc, saveFlag,
          testIdx, last, impl, peer, before>>

-----------------------------------------------------------------------------
(* Bounds of the model *)

MaxLen == 3          \* longest history drawn freely from the pool

(* Program constants *)

MIN_CYCLES_FOR_TRAINING == 3
MinCycleLength == 21
MaxCycleLength == 45
DefaultCycleLength == 28
DefaultPeriodLength == 5
LutealPhaseDays == 14
FertileDaysBefore == 5
FertileDaysAfter == 1
HighConfidenceCycles == 6
MediumConfidenceCycles == 3
NFeatures == 6
AimlMinRows == 5
AimlMaxCycleLength == 35
AimlFallbackMinLength == 25
AimlNFeatures == 7
AimlHighConfidenceSamples == 5

-----------------------------------------------------------------------------
(* Calendar: date.isoformat() *)

IsLeap(y) == (y % 4 = 0) /\ ((y % 100 # 0) \/ (y % 400 = 0))

DaysInMonth(y, m) ==
    IF m = 2 THEN (IF IsLeap(y) THEN 29 ELSE 28)
    ELSE IF m \in {4, 6, 9, 11} THEN 30 ELSE 31

DaysBeforeYear(y) ==
    LET p == y - 1 IN p * 365 + (p \div 4) - (p \div 100) + (p \div 400)

DaysBeforeMonth(y, m) ==
    <<0, 31, 59, 90, 120, 151, 181, 212, 243, 273, 304, 334>>[m]
    + (IF m > 2 /\ IsLeap(y) THEN 1 ELSE 0)

ToOrdinal(y, m, d) == DaysBeforeYear(y) + DaysBeforeMonth(y, m) + d

YearOf(n) ==
    LET g == ((n - 1) * 400) \div 146097 + 1
    IN  IF DaysBeforeYear(g + 1) < n THEN g + 1
        ELSE IF DaysBeforeYear(g) >= n THEN g - 1
        ELSE g

IsoFormat(n) ==
    LET y == YearOf(n)
        r == n - DaysBeforeYear(y)
        m == CHOOSE k \in 1..12 :
                 /\ DaysBeforeMonth(y, k) < r
                 /\ r <= DaysBeforeMonth(y, k) + DaysInMonth(y, k)
    IN  <<y, m, r - DaysBeforeMonth(y, m)>>

-----------------------------------------------------------------------------
(* Inputs *)

Cycle(d, k, p) == [start_date |-> d, period |-> k, period_length |-> p]

\* 2023-01-01 without a period_length; 2023-02-01 twice, with period
\* lengths 4 and 6; 2023-04-03 with a period_length that is not a number.
\* The gaps are 0, 31, 61 and 92 days.
RecJan == Cycle(ToOrdinal(2023, 1, 1), "absent", 0)
RecFeb4 == Cycle(ToOrdinal(2023, 2, 1), "int", 4)
RecFeb6 == Cycle(ToOrdinal(2023, 2, 1), "int", 6)
RecApr == Cycle(ToOrdinal(2023, 4, 3), "bad", 0)

Pool == {RecJan, RecFeb4, RecFeb6, RecApr}

\* A history long enough for the highest confidence tier, latest record
\* first: 29 days between consecutive starts.
LongHistory ==
    [i \in 1..HighConfidenceCycles |-> Cycle(ToOrdinal(2023, 8, 1) - 29 * i, "int", 5)]

\* Histories train can fit a regressor on
TrainableHistories ==
    { LongHistory,
      <<RecApr, RecFeb6, RecFeb4, RecJan>>,
      <<RecFeb4, RecFeb6, RecFeb4, RecApr>> }

\* Five valid cycles, 28, 30, 29 and 32 days apart: a mean gap of 29.75
FiveCycles ==
    << Cycle(ToOrdinal(2023, 1, 1), "int", 5), Cycle(ToOrdinal(2023, 1, 29), "int", 5),
       Cycle(ToOrdinal(2023, 2, 28), "int", 5), Cycle(ToOrdinal(2023, 3, 29), "int", 5),
       Cycle(ToOrdinal(2023, 4, 30), "int", 5) >>

Histories ==
    UNION { [1..n -> Pool] : n \in 0..MaxLen } \cup TrainableHistories \cup {FiveCycles}

\* The histories on which the faulty environment is explored
FaultHistories == { <<RecApr, RecFeb6, RecFeb4, RecJan>> }

\* The histories two requests running side by side are explored on
SharedHistories == { <<RecApr, RecFeb6, RecFeb4, RecJan>> }

\* The three copies of the engine
Impls == {"backend", "service", "aiml"}

Todays == { ToOrdinal(2024, 2, 2) }

-----------------------------------------------------------------------------
(* sorted(cycles, key=lambda x: x['start_date']): stable *)

\* A history left in the order the caller gave it
UnsortedInput(s) == s

RECURSIVE InsertByStart(_, _)
InsertByStart(r, s) ==
    IF s = <<>> THEN <<r>>
    ELSE IF s[Len(s)].start_date <= r.start_date THEN Append(s, r)
    ELSE Append(InsertByStart(r, SubSeq(s, 1, Len(s) - 1)), s[Len(s)])

RECURSIVE SortByStart(_)
SortByStart(s) ==
    IF s = <<>> THEN <<>>
    ELSE InsertByStart(s[Len(s)], SortByStart(SubSeq(s, 1, Len(s) - 1)))

RECURSIVE SumSeq(_)
SumSeq(s) == IF s = <<>> THEN 0 ELSE s[1] + SumSeq(Tail(s))

RECURSIVE SumSq(_)
SumSq(s) == IF s = <<>> THEN 0 ELSE s[1] * s[1] + SumSq(Tail(s))

\* n * sum(x^2) - sum(x)^2: np.std(s) = sqrt(VarNum(s)) / len(s)
VarNum(s) == Len(s) * SumSq(s) - SumSeq(s) * SumSeq(s)

\* (curr['start_date'] - prev['start_date']).days for consecutive records
Gaps(s) == [i \in 1..(Len(s) - 1) |-> s[i + 1].start_date - s[i].start_date]

\* prev_cycle.get('period_length', 5)
PeriodOf(c) == IF c.period = "absent" THEN DefaultPeriodLength ELSE c.period_length

-----------------------------------------------------------------------------
(* Objects held in memory and stored in the artifact files *)

\* cls "None" is Python's None.  A regressor (cls "RF") answers as its kind
\* says; a scaler (cls "Scaler") centres the two integer features.
\* Which training run made an object: one before the instance was built,
\* or a train call on it.
EarlierRun == "earlier"
ThisRun == "this"
OtherRun == "other"     \* a train call of the other request
NoRun == "none"

Obj(c, f, k, nf, mc, mp, v) ==
    [cls |-> c, fitted |-> f, kind |-> k, nfeat |-> nf,
     mean_cycle |-> mc, mean_period |-> mp, ver |-> v]

NoneObj == Obj("None", FALSE, "", 0, 0, 0, NoRun)

\* RandomForestRegressor(...) and StandardScaler() before fit
NewRegressor == Obj("RF", FALSE, "", 0, 0, 0, NoRun)
NewScaler == Obj("Scaler", FALSE, "", 0, 0, 0, NoRun)

\* self.metadata: {} after __init__, the default dict after a failed load,
\* the trained dict after metadata.update(...) or a successful load.
Meta(s, lt, n) == [state |-> s, last_trained |-> lt, trained_with_samples |-> n]
EmptyMetadata == Meta("empty", NoRun, 0)
DefaultMetadata == Meta("default", NoRun, 0)

\* What a fitted regressor can answer with: far below and far above the
\* clamp range, or a fractional value computed from the row.
RegressorKinds == {"lo", "hi", "echo"}
\* What RandomForestRegressor.fit of this program produces.
TrainedKinds == {"echo"}

-----------------------------------------------------------------------------
(* preprocess_data *)

Returned(v) == [raised |-> FALSE, exc |-> "", val |-> v]
Raised(e) == [raised |-> TRUE, exc |-> e, val |-> <<>>]

\* The feature vector built at loop index i (curr = s[i], prev = s[i-1]) of
\* the sorted history s, and its target.
FeatureRow(s, i) ==
    LET cycle_lengths == SubSeq(Gaps(s), 1, i - 1)
        period_lengths == [k \in 1..(i - 1) |-> PeriodOf(s[k])]
    IN  [prev_cycle_length |-> cycle_lengths[i - 1],
         prev_period_length |-> period_lengths[i - 1],
         cycle_sum |-> SumSeq(cycle_lengths),
         period_sum |-> SumSeq(period_lengths),
         n |-> i - 1,
         cycle_varnum |-> VarNum(cycle_lengths),
         period_varnum |-> VarNum(period_lengths)]

TargetOf(s, i) == Gaps(s)[i - 1]

\* A feature extractor that gives a history of 2 records the row of its one
\* gap
preprocess_row_for_two_records(cs) ==
    IF Len(cs) < 2 THEN Raised("ValueError")
    ELSE LET s == SortByStart(cs)
             n == Len(s)
         IN  IF n >= 3 /\ \E k \in 1..(n - 1) : s[k].period = "bad"
             THEN Raised("TypeError")
             ELSE IF n < 3
             THEN Returned([X |-> <<FeatureRow(s, 2)>>, y |-> <<TargetOf(s, 2)>>])
             ELSE Returned([X |-> [j \in 1..(n - 2) |-> FeatureRow(s, j + 2)],
                            y |-> [j \in 1..(n - 2) |-> TargetOf(s, j + 2)]])

\* A feature extractor that emits its first row at the first gap already
preprocess_rows_from_first_gap(cs) ==
    IF Len(cs) < 2 THEN Raised("ValueError")
    ELSE LET s == SortByStart(cs)
             n == Len(s)
         IN  IF \E k \in 1..(n - 1) : s[k].period = "bad"
             THEN Raised("TypeError")
             ELSE Returned([X |-> [j \in 1..(n - 1) |-> FeatureRow(s, j + 1)],
                            y |-> [j \in 1..(n - 1) |-> TargetOf(s, j + 1)]])

\* Rows are emitted from the second gap on (len(cycle_lengths) >= 2); the
\* sums over period_lengths raise TypeError on a malformed period_length.
preprocess_data(cs) ==
    IF Len(cs) < 2 THEN Raised("ValueError")
    ELSE LET s == SortByStart(cs)
             n == Len(s)
         IN  IF n >= 3 /\ \E k \in 1..(n - 1) : s[k].period = "bad"
             THEN Raised("TypeError")
             ELSE IF n < 3 THEN Raised("ValueError")
             ELSE Returned([X |-> [j \in 1..(n - 2) |-> FeatureRow(s, j + 2)],
                            y |-> [j \in 1..(n - 2) |-> TargetOf(s, j + 2)]])

-----------------------------------------------------------------------------
(* Pure helpers of predict *)

Num(num, den, isf) == [present |-> TRUE, num |-> num, den |-> den, is_float |-> isf]
NoNum == [present |-> FALSE, num |-> 0, den |-> 1, is_float |-> FALSE]

\* A length passed on as the regressor or the mean gave it
Unclamped(x) == x

\* max(21, min(45, x)) for x = num/den
Clamp(x) ==
    IF x.num >= MaxCycleLength * x.den THEN Num(MaxCycleLength, 1, FALSE)
    ELSE IF x.num > MinCycleLength * x.den THEN x
    ELSE Num(MinCycleLength, 1, FALSE)

\* date + timedelta(days=x): the fraction of a day is dropped
PlusDays(d, x) == d + (x.num \div x.den)

\* A fertile window counted from a luteal phase one day shorter
fertile_window_13(next_period_date, cycle_length) ==
    LET ovulation_day == next_period_date - (LutealPhaseDays - 1)
    IN  [ovulation_day |-> IsoFormat(ovulation_day),
         fertile_window_start |-> IsoFormat(ovulation_day - FertileDaysBefore),
         fertile_window_end |-> IsoFormat(ovulation_day + FertileDaysAfter)]

\* A fertile window that ends on the ovulation day
fertile_window_end_at_ovulation(next_period_date, cycle_length) ==
    LET ovulation_day == next_period_date - LutealPhaseDays
    IN  [ovulation_day |-> IsoFormat(ovulation_day),
         fertile_window_start |-> IsoFormat(ovulation_day - FertileDaysBefore),
         fertile_window_end |-> IsoFormat(ovulation_day)]

\* ml_utils.predict_fertile_window on a date object
predict_fertile_window(next_period_date, cycle_length) ==
    LET ovulation_day == next_period_date - LutealPhaseDays
    IN  [ovulation_day |-> IsoFormat(ovulation_day),
         fertile_window_start |-> IsoFormat(ovulation_day - FertileDaysBefore),
         fertile_window_end |-> IsoFormat(ovulation_day + FertileDaysAfter)]

\* A confidence estimator whose two upper tiers are exchanged
confidence_tiers_exchanged(n_cycles) ==
    IF n_cycles >= HighConfidenceCycles THEN "medium"
    ELSE IF n_cycles >= MediumConfidenceCycles THEN "high"
    ELSE "low"

\* _calculate_confidence
calculate_confidence(n_cycles) ==
    IF n_cycles >= HighConfidenceCycles THEN "high"
    ELSE IF n_cycles >= MediumConfidenceCycles THEN "medium"
    ELSE "low"

\* The dict predict returns (or the exception that escapes it), with the
\* attempts made on the way in trace.
Prediction(mu, npd, cl, fw, conf, lcd, msg, mv, lt, tr) ==
    [kind |-> "returned", exc |-> "", status |-> "success", model_used |-> mu,
     next_period_date |-> npd, cycle_length |-> cl,
     fertile_start |-> fw.fertile_window_start,
     fertile_end |-> fw.fertile_window_end,
     ovulation_day |-> fw.ovulation_day,
     confidence |-> conf, last_cycle_date |-> lcd, message |-> msg,
     model_version |-> mv, last_trained |-> lt, trace |-> tr]

Escaped(e, tr) ==
    [kind |-> "raised", exc |-> e, status |-> "", model_used |-> "",
     next_period_date |-> <<>>, cycle_length |-> NoNum,
     fertile_start |-> <<>>, fertile_end |-> <<>>, ovulation_day |-> <<>>,
     confidence |-> "", last_cycle_date |-> <<>>, message |-> "",
     model_version |-> "", last_trained |-> NoRun, trace |-> tr]

\* max(cycles, key=lambda x: x['start_date'])['start_date']
LastStart(cs) == CHOOSE d \in {cs[i].start_date : i \in 1..Len(cs)} :
                     \A i \in 1..Len(cs) : cs[i].start_date <= d

\* An average strategy that takes the latest gap for the mean
fallback_latest_gap(cs, td, tr) ==
    LET cycle_lengths == Gaps(SortByStart(cs))
        avg_cycle_length == IF cycle_lengths # <<>>
                            THEN Clamp(Num(cycle_lengths[Len(cycle_lengths)], 1, TRUE))
                            ELSE Num(DefaultCycleLength, 1, FALSE)
        start == IF cs = <<>> THEN td ELSE LastStart(cs)
        next_period == PlusDays(start, avg_cycle_length)
    IN  Prediction(IF cs = <<>> THEN "fallback" ELSE "average", IsoFormat(next_period),
                   avg_cycle_length, predict_fertile_window(next_period, avg_cycle_length),
                   IF cycle_lengths # <<>> THEN "medium" ELSE "low",
                   IF cs = <<>> THEN <<>> ELSE IsoFormat(start),
                   IF cycle_lengths # <<>> THEN "None" ELSE "not_enough_data",
                   "fallback", NoRun, Append(tr, IF cs = <<>> THEN "default" ELSE "average"))

\* _get_fallback_prediction: the 28-day default from today without cycles,
\* else the clamped mean gap from the latest start date.
get_fallback_prediction(cs, td, tr) ==
    IF cs = <<>>
    THEN LET next_period == td + DefaultCycleLength
         IN  Prediction("fallback", IsoFormat(next_period),
                        Num(DefaultCycleLength, 1, FALSE),
                        predict_fertile_window(next_period, DefaultCycleLength),
                        "low", <<>>, "not_enough_data", "fallback", NoRun,
                        Append(tr, "default"))
    ELSE LET cycle_lengths == Gaps(SortByStart(cs))
             avg == IF cycle_lengths # <<>>
                    THEN Num(SumSeq(cycle_lengths), Len(cycle_lengths), TRUE)
                    ELSE Num(DefaultCycleLength, 1, FALSE)
             avg_cycle_length == Clamp(avg)
             next_period == PlusDays(LastStart(cs), avg_cycle_length)
         IN  Prediction("average", IsoFormat(next_period), avg_cycle_length,
                        predict_fertile_window(next_period, avg_cycle_length),
                        IF cycle_lengths # <<>> THEN "medium" ELSE "low",
                        IsoFormat(LastStart(cs)),
                        IF cycle_lengths # <<>> THEN "None" ELSE "not_enough_data",
                        "fallback", NoRun, Append(tr, "average"))

-----------------------------------------------------------------------------
(* The optional collaborator: gemini_service.predict_next_cycle *)

\* settings.GEMINI_API_KEY unset ("off"), or set and the service answers
\* with status success, with status error (no client, a failed API call),
\* with text that is not the JSON object asked for ("malformed"), or by
\* raising.
GeminiOutcomes == {"off", "success", "error", "malformed", "raise"}

\* The JSON fields a successful answer carries, as the service parsed them.
GeminiAnswers ==
    { [next_period_date |-> <<2023, 4, 1>>, fertile_window_start |-> <<2023, 3, 13>>,
       fertile_window_end |-> <<2023, 3, 19>>, ovulation_day |-> <<2023, 3, 18>>,
       confidence |-> "high"] }

NoAnswer == [next_period_date |-> <<>>, fertile_window_start |-> <<>>,
             fertile_window_end |-> <<>>, ovulation_day |-> <<>>, confidence |-> ""]

\* The dict the service returns on success; predict returns it unchanged.
gemini_result(cs, ans, tr) ==
    Prediction("gemini_ai", ans.next_period_date, NoNum, ans, ans.confidence,
               IsoFormat(cs[Len(cs)].start_date), "absent", "gemini", NoRun, tr)

\* A collaborator whose exception is not caught where it is called
gemini_attempt_uncaught(g, cs, ans, tr) ==
    IF g = "raise" THEN Raised("Exception")
    ELSE IF g = "success"
    THEN Returned([answered |-> TRUE, res |-> gemini_result(cs, ans, tr)])
    ELSE Returned([answered |-> FALSE, res |-> Escaped("", tr)])

\* Lines 247-256 of predict: the collaborator is asked when the key is set.
\* A success dict is the answer; the service turns malformed text into a
\* status error dict (gemini_service.py lines 134-144), which is logged, and
\* an exception of the call is caught and logged: both fall through.
gemini_attempt(g, cs, ans, tr) ==
    IF g = "success"
    THEN Returned([answered |-> TRUE, res |-> gemini_result(cs, ans, tr)])
    ELSE Returned([answered |-> FALSE, res |-> Escaped("", tr)])

-----------------------------------------------------------------------------
(* The regressor and the scaler at inference *)

\* bool(obj): None is falsy, a scaler is truthy, an ensemble is as truthy as
\* len(estimators_), an attribute it has only once fitted.
Truthy(o) ==
    IF o.cls = "None" THEN Returned(FALSE)
    ELSE IF o.cls = "RF" /\ ~o.fitted THEN Raised("AttributeError")
    ELSE Returned(TRUE)

\* scaler.transform(X[-1:]): the row centred on the fitted means (the
\* division by the fitted scale is left out of the encoding).
transform(sc, row) ==
    IF ~sc.fitted THEN Raised("NotFittedError")
    ELSE IF sc.nfeat # NFeatures THEN Raised("ValueError")
    ELSE Returned([row EXCEPT !.prev_cycle_length = @ - sc.mean_cycle,
                              !.prev_period_length = @ - sc.mean_period])

\* A regressor that fit has left without estimators
regress_not_fitted(m, srow) == Raised("NotFittedError")

\* model.predict(X_scaled)[0]
regress(m, srow) ==
    IF ~m.fitted THEN Raised("NotFittedError")
    ELSE IF m.nfeat # NFeatures THEN Raised("ValueError")
    ELSE Returned(CASE m.kind = "lo" -> Num(-1000, 1, TRUE)
                    [] m.kind = "hi" -> Num(1000, 1, TRUE)
                    [] OTHER -> Num(61 + 2 * srow.prev_period_length
                                    + (IF srow.prev_cycle_length > 0 THEN 4 ELSE 0),
                                    2, TRUE))

\* An ML strategy that is never entered
ml_strategy_skipped(cycles_sorted, m, sc, md, tr) ==
    Returned([taken |-> FALSE, res |-> Escaped("", tr)])

\* Lines 262-297 of predict: the ML strategy.  val.taken says whether the
\* branch was entered; a raise is what the enclosing try catches.
ml_strategy(cycles_sorted, m, sc, md, tr) ==
    LET tm == Truthy(m)
        NotTaken == Returned([taken |-> FALSE, res |-> Escaped("", tr)])
    IN  IF tm.raised THEN tm
        ELSE IF ~tm.val \/ ~Truthy(sc).val \/ Len(cycles_sorted) < 2 THEN NotTaken
        ELSE LET pre == preprocess_data(cycles_sorted)
             IN  IF pre.raised THEN pre
                 ELSE LET X == pre.val.X
                          X_scaled == transform(sc, X[Len(X)])
                      IN  IF X_scaled.raised THEN X_scaled
                          ELSE LET raw == regress(m, X_scaled.val)
                               IN  IF raw.raised THEN raw
                                   ELSE LET next_cycle_length == Clamp(raw.val)
                                            last_cycle == cycles_sorted[Len(cycles_sorted)]
                                            next_period_date ==
                                                PlusDays(last_cycle.start_date, next_cycle_length)
                                        IN  Returned([taken |-> TRUE, res |->
                                              Prediction("ml_model", IsoFormat(next_period_date),
                                                next_cycle_length,
                                                predict_fertile_window(next_period_date,
                                                                       next_cycle_length),
                                                calculate_confidence(Len(cycles_sorted)),
                                                IsoFormat(last_cycle.start_date), "absent",
                                                "1.0.0", md.last_trained,
                                                Append(tr, "regressor"))])

\* A predict that tries the regressor before it asks the collaborator
predict_regressor_first(cs, td, m, sc, md, g, ans) ==
    IF cs = <<>> THEN get_fallback_prediction(<<>>, td, <<>>)
    ELSE LET ml == ml_strategy(SortByStart(cs), m, sc, md, <<>>)
         IN  IF ~ml.raised /\ ml.val.taken THEN ml.val.res
             ELSE LET tried == IF ml.raised THEN <<"except">> ELSE <<>>
                      tr == IF g = "off" THEN tried ELSE Append(tried, "gemini")
                      att == gemini_attempt(g, cs, ans, tr)
                  IN  IF att.val.answered THEN att.val.res
                      ELSE get_fallback_prediction(cs, td, tr)

\* CyclePredictor.predict
predict(cs, td, m, sc, md, g, ans) ==
    IF cs = <<>> THEN get_fallback_prediction(<<>>, td, <<>>)
    ELSE LET tr == IF g = "off" THEN <<>> ELSE <<"gemini">>
             att == gemini_attempt(g, cs, ans, tr)
         IN  IF att.raised THEN get_fallback_prediction(cs, td, Append(tr, "except"))
             ELSE IF att.val.answered THEN att.val.res
             ELSE LET ml == ml_strategy(SortByStart(cs), m, sc, md, tr)
                  IN  IF ml.raised THEN get_fallback_prediction(cs, td, Append(tr, "except"))
                      ELSE IF ml.val.taken THEN ml.val.res
                      ELSE get_fallback_prediction(cs, td, tr)

-----------------------------------------------------------------------------
(* The artifact files: ml_utils.load_model_artifacts *)

File(st, o, md) == [st |-> st, obj |-> o, meta |-> md]
MissingFile == File("missing", NoneObj, EmptyMetadata)
CorruptFile == File("corrupt", NoneObj, EmptyMetadata)

Disk(m, s, md) == [model |-> m, scaler |-> s, metadata |-> md]

\* An artifact set left by an earlier training (stamp 1), its regressor of
\* kind k, its scaler fitted on nf features.
ArtifactOnDisk(k, nf) ==
    Disk(File("ok", Obj("RF", TRUE, k, nf, 0, 0, EarlierRun), EmptyMetadata),
         File("ok", Obj("Scaler", TRUE, "", nf, 30, 5, EarlierRun), EmptyMetadata),
         File("ok", NoneObj, Meta("trained", EarlierRun, 4)))

InitialDisks ==
    { Disk(MissingFile, MissingFile, MissingFile) }
    \cup { ArtifactOnDisk(k, NFeatures) : k \in RegressorKinds }
    \cup { ArtifactOnDisk("echo", AimlNFeatures),
           [ArtifactOnDisk("echo", NFeatures) EXCEPT !.model = CorruptFile],
           [ArtifactOnDisk("echo", NFeatures) EXCEPT !.scaler = MissingFile],
           [ArtifactOnDisk("echo", NFeatures) EXCEPT !.metadata = CorruptFile] }

\* The file the save step at position p writes
FileBeingWritten(p) ==
    CASE p = "save_model" -> {"model"}
      [] p = "save_scaler" -> {"scaler"}
      [] p = "save_metadata" -> {"metadata"}
      [] OTHER -> {}

\* What a process that opens the files can find while another process is at
\* position p of its save: the files as they are, or the file being
\* written read before the write is complete.
DiskViews(d, p) == {d} \cup { [d EXCEPT ![f] = CorruptFile] : f \in FileBeingWritten(p) }

\* The files two requests running side by side start from: a complete
\* artifact set of an earlier training
SharedDisks == { ArtifactOnDisk("echo", NFeatures) }

load_model_artifacts(d) ==
    IF \E f \in {"model", "scaler", "metadata"} : d[f].st = "missing"
    THEN Raised("FileNotFoundError")
    ELSE IF d.model.st = "corrupt" \/ d.scaler.st = "corrupt" THEN Raised("UnpicklingError")
    ELSE IF d.metadata.st = "corrupt" THEN Raised("JSONDecodeError")
    ELSE Returned([model |-> d.model.obj, scaler |-> d.scaler.obj,
                   metadata |-> d.metadata.meta])

\* CyclePredictor.__init__ with _load_model: the instance it leaves
Construct(d, enabled) ==
    IF ~enabled
    THEN [model |-> NoneObj, scaler |-> NoneObj, metadata |-> EmptyMetadata,
          origin |-> "disabled"]
    ELSE LET l == load_model_artifacts(d)
         IN  IF l.raised
             THEN [model |-> NoneObj, scaler |-> NoneObj, metadata |-> DefaultMetadata,
                   origin |-> "load_failed"]
             ELSE [model |-> l.val.model, scaler |-> l.val.scaler,
                   metadata |-> l.val.metadata, origin |-> "loaded"]

-----------------------------------------------------------------------------
(* predict_service.py: PredictService *)

\* __init__ with _load_model: each file is read if it exists; any exception
\* leaves model and scaler None (metadata is the last file read)
ServiceConstruct(d) ==
    IF \E f \in {"model", "scaler", "metadata"} : d[f].st = "corrupt"
    THEN [model |-> NoneObj, scaler |-> NoneObj, metadata |-> EmptyMetadata,
          origin |-> "load_failed"]
    ELSE [model |-> d.model.obj, scaler |-> d.scaler.obj, metadata |-> d.metadata.meta,
          origin |-> "loaded"]

\* PredictService._fallback_prediction: the dates of the empty case are
\* computed from today directly; the rest is the computation of the
\* backend copy without the metadata block.
service_fallback_prediction(cs, td, tr) ==
    IF cs = <<>>
    THEN Prediction("fallback", IsoFormat(td + 28), Num(28, 1, FALSE),
                    [fertile_window_start |-> IsoFormat(td + 9),
                     fertile_window_end |-> IsoFormat(td + 15),
                     ovulation_day |-> IsoFormat(td + 14)],
                    "low", <<>>, "not_enough_data", "absent", NoRun,
                    Append(tr, "default"))
    ELSE LET cycle_lengths == Gaps(SortByStart(cs))
             avg == IF cycle_lengths # <<>>
                    THEN Num(SumSeq(cycle_lengths), Len(cycle_lengths), TRUE)
                    ELSE Num(28, 1, FALSE)
             avg_cycle_length == Clamp(avg)
             next_period == PlusDays(LastStart(cs), avg_cycle_length)
             ovulation_day == next_period - 14
         IN  Prediction("average", IsoFormat(next_period), avg_cycle_length,
                        [fertile_window_start |-> IsoFormat(ovulation_day - 5),
                         fertile_window_end |-> IsoFormat(ovulation_day + 1),
                         ovulation_day |-> IsoFormat(ovulation_day)],
                        IF cycle_lengths # <<>> THEN "medium" ELSE "low",
                        IsoFormat(LastStart(cs)),
                        IF cycle_lengths # <<>> THEN "None" ELSE "not_enough_data",
                        "absent", NoRun, Append(tr, "average"))

\* Lines 174-211 of PredictService.predict: the body of its try
service_ml(cs, m, sc) ==
    LET pre == preprocess_data(cs)
    IN  IF pre.raised THEN pre
        ELSE LET X == pre.val.X
                 X_scaled == transform(sc, X[Len(X)])
             IN  IF X_scaled.raised THEN X_scaled
                 ELSE LET raw == regress(m, X_scaled.val)
                      IN  IF raw.raised THEN raw
                          ELSE LET next_cycle_length == Clamp(raw.val)
                                   last_date == LastStart(cs)
                                   next_period_date == PlusDays(last_date, next_cycle_length)
                                   ovulation_day == next_period_date - 14
                               IN  Returned(
                                     Prediction("ml_model", IsoFormat(next_period_date),
                                       next_cycle_length,
                                       [fertile_window_start |-> IsoFormat(ovulation_day - 5),
                                        fertile_window_end |-> IsoFormat(ovulation_day + 1),
                                        ovulation_day |-> IsoFormat(ovulation_day)],
                                       IF Len(cs) >= 3 THEN "high"
                                       ELSE IF Len(cs) >= 1 THEN "medium" ELSE "low",
                                       IsoFormat(last_date), "absent", "absent", NoRun,
                                       <<"regressor">>))

\* PredictService.predict: the test of model and scaler stands before the try
service_predict(cs, td, m, sc) ==
    LET tm == Truthy(m)
    IN  IF tm.raised THEN Escaped(tm.exc, <<>>)
        ELSE IF ~tm.val \/ ~Truthy(sc).val THEN service_fallback_prediction(cs, td, <<>>)
        ELSE LET ml == service_ml(cs, m, sc)
             IN  IF ml.raised THEN service_fallback_prediction(cs, td, <<"except">>)
                 ELSE ml.val

-----------------------------------------------------------------------------
(* aiml/cycle_prediction_model.py: DataProcessor and CyclePredictor *)

\* __init__ with _load_model: the scaler starts as a new StandardScaler; a
\* missing model file or any exception while loading re-initialises the
\* regressor only.
AimlConstruct(d) ==
    LET fresh == [model |-> NewRegressor, scaler |-> NewScaler,
                  metadata |-> DefaultMetadata, origin |-> "new"]
    IN  IF d.model.st = "missing" THEN fresh
        ELSE IF d.model.st = "corrupt" \/ d.scaler.st = "corrupt"
        THEN [fresh EXCEPT !.origin = "load_failed"]
        ELSE LET sc == IF d.scaler.st = "ok" THEN d.scaler.obj ELSE NewScaler
             IN  IF d.metadata.st = "corrupt"
                 THEN [fresh EXCEPT !.scaler = sc, !.origin = "load_failed"]
                 ELSE [model |-> d.model.obj, scaler |-> sc,
                       metadata |-> IF d.metadata.st = "ok" THEN d.metadata.meta
                                    ELSE DefaultMetadata,
                       origin |-> "loaded"]

\* date.month and date.weekday()
MonthOf(n) == IsoFormat(n)[2]
WeekdayOf(n) == (n + 6) % 7

\* The feature row built from the record prev and the gap before it (28
\* when there is none); a CycleRecord of this model has no symptoms or flow.
AimlRow(prev, previous_cycle_length) ==
    [previous_cycle_length |-> previous_cycle_length, symptoms_count |-> 0,
     has_cramps |-> 0, has_headache |-> 0, heavy_flow |-> 0,
     month |-> MonthOf(prev.start_date), day_of_week |-> WeekdayOf(prev.start_date)]

\* DataProcessor.process_cycles
process_cycles(cs) ==
    IF Len(cs) < 2 THEN Raised("ValueError")
    ELSE LET s == SortByStart(cs)
         IN  Returned([X |-> [i \in 1..(Len(s) - 1) |->
                                AimlRow(s[i], IF i >= 2 THEN Gaps(s)[i - 1]
                                              ELSE DefaultCycleLength)],
                       y |-> Gaps(s)])

\* round(x): to the nearest integer, halves to the even one
Round(x) ==
    LET q == x.num \div x.den
        r == x.num % x.den
    IN  IF 2 * r < x.den THEN q
        ELSE IF 2 * r > x.den THEN q + 1
        ELSE IF q % 2 = 0 THEN q ELSE q + 1

ClampInt(lo, hi, n) == IF n > hi THEN hi ELSE IF n < lo THEN lo ELSE n

aiml_transform(sc, row) ==
    IF ~sc.fitted THEN Raised("NotFittedError")
    ELSE IF sc.nfeat # AimlNFeatures THEN Raised("ValueError")
    ELSE Returned([row EXCEPT !.previous_cycle_length = @ - sc.mean_cycle])

aiml_regress(m, srow) ==
    IF ~m.fitted THEN Raised("NotFittedError")
    ELSE IF m.nfeat # AimlNFeatures THEN Raised("ValueError")
    ELSE Returned(CASE m.kind = "lo" -> Num(-1000, 1, TRUE)
                    [] m.kind = "hi" -> Num(1000, 1, TRUE)
                    [] OTHER -> Num(61 + 2 * srow.previous_cycle_length, 2, TRUE))

\* _calculate_fertile_window, with the isoformat calls of its callers
calculate_fertile_window(next_period) ==
    LET ovulation_day == next_period - 14
    IN  [fertile_window_start |-> IsoFormat(ovulation_day - 5),
         fertile_window_end |-> IsoFormat(ovulation_day + 1),
         ovulation_day |-> IsoFormat(ovulation_day)]

get_confidence_interval(n_samples) ==
    IF n_samples >= AimlHighConfidenceSamples THEN "high"
    ELSE IF n_samples >= MediumConfidenceCycles THEN "medium"
    ELSE "low"

\* The dict of this copy: no status and no model_used key; fallback_used
\* is carried in message.
AimlPrediction(next_period, len, conf, fallback_used, tr) ==
    [Prediction("absent", IsoFormat(next_period), Num(len, 1, FALSE),
                calculate_fertile_window(next_period), conf, <<>>,
                IF fallback_used THEN "fallback_used" ELSE "absent",
                "absent", NoRun, tr)
     EXCEPT !.status = "absent"]

\* CyclePredictor._fallback_prediction, on a history that is not empty
aiml_fallback_prediction(cs, tr) ==
    LET s == SortByStart(cs)
        last_cycle == s[Len(s)]
        lengths == Gaps(s)
        avg_length == IF Len(s) >= 2
                      THEN ClampInt(AimlFallbackMinLength, AimlMaxCycleLength,
                                    Round(Num(SumSeq(lengths), Len(lengths), TRUE)))
                      ELSE DefaultCycleLength
    IN  AimlPrediction(last_cycle.start_date + avg_length, avg_length, "low", TRUE,
                       Append(tr, "average"))

\* Lines 229-273 of predict_next_cycle: the body of its try
aiml_ml(cs, m, sc) ==
    LET s == SortByStart(cs)
        last_cycle == s[Len(s)]
        features == AimlRow(last_cycle,
                            IF Len(s) >= 2
                            THEN last_cycle.start_date - s[Len(s) - 1].start_date
                            ELSE DefaultCycleLength)
        X_scaled == aiml_transform(sc, features)
    IN  IF X_scaled.raised THEN X_scaled
        ELSE LET raw == aiml_regress(m, X_scaled.val)
             IN  IF raw.raised THEN raw
                 ELSE LET predicted_length ==
                              ClampInt(MinCycleLength, AimlMaxCycleLength, Round(raw.val))
                      IN  Returned(AimlPrediction(last_cycle.start_date + predicted_length,
                                                  predicted_length,
                                                  get_confidence_interval(Len(s)), FALSE,
                                                  <<"regressor">>))

\* CyclePredictor.predict_next_cycle
predict_next_cycle(cs, m, sc) ==
    IF cs = <<>> THEN Escaped("ValueError", <<>>)
    ELSE LET ml == aiml_ml(cs, m, sc)
         IN  IF ml.raised THEN aiml_fallback_prediction(cs, <<"except">>)
             ELSE ml.val

-----------------------------------------------------------------------------
(* What a completed call left behind *)

TrainResult(k, e, st, n) == [kind |-> k, exc |-> e, status |-> st, n_samples |-> n]
NoTrainResult == TrainResult("none", "", "", 0)
NoPrediction == [Escaped("", <<>>) EXCEPT !.kind = "none"]

\* op: the call; pred / train: its outcome.  after_success, of a
\* construction: it came right after a train call that saved and returned
\* success; of a predict call: it came right after such a train call, or
\* right after such a construction that loaded the files.
Last(op, p, t, f) == [op |-> op, pred |-> p, train |-> t, after_success |-> f]

\* The instance of the other request: not yet arrived ("absent"),
\* constructed ("ready"), at a write of the save that ends its train call,
\* or dropped when its handler has returned ("done").
Peer(p, m, sc, md) == [pc |-> p, model |-> m, scaler |-> sc, metadata |-> md]
NoPeer == Peer("absent", NoneObj, NoneObj, EmptyMetadata)
PeerDone == Peer("done", NoneObj, NoneObj, EmptyMetadata)

\* What a train call found when it was entered; none after any other call
Snapshot(files, m, sc) == [taken |-> TRUE, files |-> files, model |-> m, scaler |-> sc]
NoSnapshot ==
    [taken |-> FALSE, files |-> Disk(MissingFile, MissingFile, MissingFile),
     model |-> NoneObj, scaler |-> NoneObj]

TrainRaised(e) == Last("train", NoPrediction, TrainResult("raised", e, "", 0), FALSE)
TrainRunning == Last("train", NoPrediction, TrainResult("running", "", "", 0), FALSE)
TrainReturned(st, n) == Last("train", NoPrediction, TrainResult("returned", "", st, n), FALSE)
TrainSucceeded(n) == TrainReturned("success", n)

-----------------------------------------------------------------------------
(* Initial states: a caller's history, the files an earlier process left,  *)
(* and the instance CyclePredictor() builds from them.                     *)

\* The instances the constructor of copy i can build over the files d;
\* settings.CYCLE_PREDICTION_ENABLED is read by the backend copy only.
ConstructedBy(i, d) ==
    CASE i = "backend" -> { Construct(d, enabled) : enabled \in BOOLEAN }
      [] i = "service" -> { ServiceConstruct(d) }
      [] OTHER -> { AimlConstruct(d) }

Init ==
    /\ impl \in Impls
    /\ \/ cycles \in Histories /\ env = "reliable"
       \/ cycles \in FaultHistories /\ env = "faulty"
       \/ cycles \in SharedHistories /\ env = "concurrent" /\ impl = "backend"
    /\ today \in Todays
    /\ disk \in IF env = "concurrent" THEN SharedDisks ELSE InitialDisks
    /\ \E c \in ConstructedBy(impl, disk) :
         /\ model = c.model
         /\ scaler = c.scaler
         /\ metadata = c.metadata
         /\ origin = c.origin
    /\ pc = "idle"
    /\ saveFlag = TRUE
    /\ testIdx = {}
    /\ last = Last("none", NoPrediction, NoTrainResult, FALSE)
    /\ peer = NoPeer
    /\ before = NoSnapshot

-----------------------------------------------------------------------------
(* CyclePredictor() : a new instance replaces the live one *)

NewInstance ==
    /\ pc = "idle"
    /\ \E view \in DiskViews(disk, peer.pc) :
         \E c \in ConstructedBy(impl, view) :
            /\ model' = c.model
            /\ scaler' = c.scaler
            /\ metadata' = c.metadata
            /\ origin' = c.origin
    /\ last' = Last("new", NoPrediction, NoTrainResult,
                    /\ last.op = "train"
                    /\ last.train.status = "success"
                    /\ saveFlag)
    /\ before' = NoSnapshot
    /\ UNCHANGED <<cycles, today, disk, env, pc, saveFlag, testIdx, impl, peer>>

(* predict(cycles) on the live instance *)

\* A predict that fits the scaler on the row it scales (fit_transform for
\* transform)
PredictRefitsScaler ==
    /\ impl = "backend"
    /\ pc = "idle"
    /\ \E g \in GeminiOutcomes :
         \E ans \in IF g = "success" THEN GeminiAnswers ELSE {NoAnswer} :
            last' = Last("predict", predict(cycles, today, model, scaler, metadata, g, ans),
                         NoTrainResult, FALSE)
    /\ scaler' = IF scaler.cls # "None" /\ Len(cycles) >= 3
                 THEN [scaler EXCEPT !.fitted = TRUE, !.nfeat = NFeatures, !.ver = ThisRun]
                 ELSE scaler
    /\ before' = NoSnapshot
    /\ UNCHANGED <<cycles, today, model, metadata, origin, disk, env, pc,
                   saveFlag, testIdx, impl, peer>>

(* predict(cycles) on the live instance *)

Predict ==
    /\ impl = "backend"
    /\ pc = "idle"
    /\ \E g \in GeminiOutcomes :
         \E ans \in IF g = "success" THEN GeminiAnswers ELSE {NoAnswer} :
            last' = Last("predict", predict(cycles, today, model, scaler, metadata, g, ans),
                         NoTrainResult,
                         \/ last.op = "train" /\ last.train.status = "success"
                         \/ last.op = "new" /\ last.after_success /\ origin = "loaded")
    /\ before' = NoSnapshot
    /\ UNCHANGED <<cycles, today, model, scaler, metadata, origin, disk, env, pc,
                   saveFlag, testIdx, impl, peer>>

-----------------------------------------------------------------------------
(* train(cycles, save_model), statement by statement *)

\* What one fit or one file write can do in the environment e
Outcomes(e, all) == IF e = "faulty" THEN all ELSE {"ok"}

\* train_test_split(X, y, test_size=0.2): ceil(0.2 * n) rows are held out
NTest(n) == (n + 4) \div 5

\* floor of the mean of a feature over the training partition
MeanOver(X, idx, f) == SumSeq([j \in 1..Len(idx) |-> X[idx[j]][f]]) \div Len(idx)

RECURSIVE SetToSeq(_)
SetToSeq(S) == IF S = {} THEN <<>>
               ELSE LET x == CHOOSE y \in S : \A z \in S : y <= z
                    IN  <<x>> \o SetToSeq(S \ {x})

\* Lines 153-168: the length check, preprocess_data and the split
TrainCall ==
    /\ impl = "backend"
    /\ pc = "idle"
    /\ \E save_model \in BOOLEAN :
         IF Len(cycles) < MIN_CYCLES_FOR_TRAINING
         THEN /\ last' = TrainRaised("ValueError")
              /\ UNCHANGED <<pc, saveFlag, testIdx>>
         ELSE LET pre == preprocess_data(cycles)
              IN  IF pre.raised
                  THEN /\ last' = TrainRaised(pre.exc)
                       /\ UNCHANGED <<pc, saveFlag, testIdx>>
                  ELSE LET n == Len(pre.val.X)
                       IN  IF n - NTest(n) = 0
                           THEN /\ last' = TrainRaised("ValueError")
                                /\ UNCHANGED <<pc, saveFlag, testIdx>>
                           ELSE /\ \E T \in SUBSET (1..n) :
                                     /\ Cardinality(T) = NTest(n)
                                     /\ testIdx' = T
                                /\ pc' = "fit_scaler"
                                /\ saveFlag' = save_model
                                /\ last' = TrainRunning
    /\ before' = Snapshot(disk, model, scaler)
    /\ UNCHANGED <<cycles, today, model, scaler, metadata, origin, disk, env, impl,
                   peer>>

\* Lines 171-173: self.scaler = StandardScaler(); fit_transform(X_train)
TrainFitScaler ==
    /\ pc = "fit_scaler"
    /\ \E outcome \in Outcomes(env, {"ok", "raises"}) :
         IF outcome = "ok"
         THEN LET X == preprocess_data(cycles).val.X
                  idx == SetToSeq((1..Len(X)) \ testIdx)
              IN  /\ scaler' = Obj("Scaler", TRUE, "", NFeatures,
                                   MeanOver(X, idx, "prev_cycle_length"),
                                   MeanOver(X, idx, "prev_period_length"), ThisRun)
                  /\ pc' = "fit_model"
                  /\ UNCHANGED last
         ELSE /\ scaler' = NewScaler
              /\ pc' = "idle"
              /\ last' = TrainRaised("MemoryError")
    /\ UNCHANGED <<cycles, today, model, metadata, origin, disk, env, saveFlag,
                   testIdx, impl, peer, before>>

\* Lines 176-203: self.model = RandomForestRegressor(...); fit; the scores;
\* self.metadata.update(...); and the return when save_model is false
TrainFitModel ==
    /\ pc = "fit_model"
    /\ \E outcome \in Outcomes(env, {"ok", "raises"}) :
         IF outcome = "ok"
         THEN /\ \E k \in TrainedKinds :
                   model' = Obj("RF", TRUE, k, NFeatures, 0, 0, ThisRun)
              /\ metadata' = Meta("trained", ThisRun, Len(cycles))
              /\ IF saveFlag
                 THEN pc' = "save_model" /\ UNCHANGED last
                 ELSE /\ pc' = "idle"
                      /\ last' = TrainSucceeded(Len(cycles) - 2)
         ELSE /\ model' = NewRegressor
              /\ pc' = "idle"
              /\ last' = TrainRaised("MemoryError")
              /\ UNCHANGED metadata
    /\ UNCHANGED <<cycles, today, scaler, origin, disk, env, saveFlag, testIdx, impl,
                   peer, before>>

\* One write of save_model_artifacts: the file holds the new content, or the
\* write raises before the file is opened (left as it was) or after
\* (truncated); the exception leaves train through its re-raise.
WriteFile(f, content, nextpc, done) ==
    \E outcome \in Outcomes(env, {"ok", "failed_before", "failed_midway"}) :
       IF outcome = "ok"
       THEN /\ disk' = [disk EXCEPT ![f] = content]
            /\ pc' = nextpc
            /\ IF done THEN last' = TrainSucceeded(Len(cycles) - 2) ELSE UNCHANGED last
       ELSE /\ disk' = IF outcome = "failed_midway"
                       THEN [disk EXCEPT ![f] = CorruptFile] ELSE disk
            /\ pc' = "idle"
            /\ last' = TrainRaised("OSError")

\* ml_utils.py line 46: joblib.dump(model, model_path)
TrainSaveModel ==
    /\ pc = "save_model"
    /\ WriteFile("model", File("ok", model, EmptyMetadata), "save_scaler", FALSE)
    /\ UNCHANGED <<cycles, today, model, scaler, metadata, origin, env, saveFlag,
                   testIdx, impl, peer, before>>

\* ml_utils.py line 47: joblib.dump(scaler, scaler_path)
TrainSaveScaler ==
    /\ pc = "save_scaler"
    /\ WriteFile("scaler", File("ok", scaler, EmptyMetadata), "save_metadata", FALSE)
    /\ UNCHANGED <<cycles, today, model, scaler, metadata, origin, env, saveFlag,
                   testIdx, impl, peer, before>>

\* ml_utils.py lines 50-51: json.dump(metadata, f); then train returns
TrainSaveMetadata ==
    /\ pc = "save_metadata"
    /\ WriteFile("metadata", File("ok", NoneObj, metadata), "idle", TRUE)
    /\ UNCHANGED <<cycles, today, model, scaler, metadata, origin, env, saveFlag,
                   testIdx, impl, peer, before>>

-----------------------------------------------------------------------------
(* PredictService: predict and train *)

ServicePredict ==
    /\ impl = "service"
    /\ pc = "idle"
    /\ last' = Last("predict", service_predict(cycles, today, model, scaler),
                    NoTrainResult, FALSE)
    /\ before' = NoSnapshot
    /\ UNCHANGED <<cycles, today, model, scaler, metadata, origin, disk, env, pc,
                   saveFlag, testIdx, impl, peer>>

\* PredictService.train: preprocess_data, self.model = RandomForestRegressor(),
\* then the call of train_test_split, a name the module never imports; the
\* except clause re-raises.
ServiceTrain ==
    /\ impl = "service"
    /\ pc = "idle"
    /\ LET pre == preprocess_data(cycles)
       IN  IF pre.raised
           THEN /\ last' = TrainRaised(pre.exc)
                /\ UNCHANGED model
           ELSE /\ model' = NewRegressor
                /\ last' = TrainRaised("NameError")
    /\ before' = Snapshot(disk, model, scaler)
    /\ UNCHANGED <<cycles, today, scaler, metadata, origin, disk, env, pc, saveFlag,
                   testIdx, impl, peer>>

-----------------------------------------------------------------------------
(* The aiml copy: predict_next_cycle and train *)

AimlPredict ==
    /\ impl = "aiml"
    /\ pc = "idle"
    /\ last' = Last("predict", predict_next_cycle(cycles, model, scaler),
                    NoTrainResult, FALSE)
    /\ before' = NoSnapshot
    /\ UNCHANGED <<cycles, today, model, scaler, metadata, origin, disk, env, pc,
                   saveFlag, testIdx, impl, peer>>

\* CyclePredictor.train of the aiml copy: every exception, the one of
\* _save_model included, is turned into the status "error".
AimlTrain ==
    /\ impl = "aiml"
    /\ pc = "idle"
    /\ LET pre == process_cycles(cycles)
       IN  IF pre.raised
           THEN /\ last' = TrainReturned("error", 0)
                /\ UNCHANGED <<model, scaler, metadata, disk>>
           ELSE IF Len(pre.val.X) < AimlMinRows
           THEN /\ last' = TrainReturned("insufficient_data", 0)
                /\ UNCHANGED <<model, scaler, metadata, disk>>
           ELSE \E T \in SUBSET (1..Len(pre.val.X)) :
                \E outcome \in Outcomes(env, {"ok", "fit_raises", "save_raises"}) :
                   LET X == pre.val.X
                       idx == SetToSeq((1..Len(X)) \ T)
                       fitted_scaler == Obj("Scaler", TRUE, "", AimlNFeatures,
                                            MeanOver(X, idx, "previous_cycle_length"),
                                            0, ThisRun)
                       fitted_model == Obj("RF", TRUE, "echo", AimlNFeatures, 0, 0, ThisRun)
                       new_metadata == Meta("trained", ThisRun, Len(cycles))
                   IN  /\ Cardinality(T) = NTest(Len(X))
                       /\ scaler' = fitted_scaler
                       /\ IF outcome = "fit_raises"
                          THEN /\ last' = TrainReturned("error", 0)
                               /\ UNCHANGED <<model, metadata, disk>>
                          ELSE /\ model' = fitted_model
                               /\ metadata' = new_metadata
                               /\ IF outcome = "save_raises"
                                  THEN /\ disk' = [disk EXCEPT !.model = CorruptFile]
                                       /\ last' = TrainReturned("error", 0)
                                  ELSE /\ disk' = Disk(File("ok", fitted_model, EmptyMetadata),
                                                       File("ok", fitted_scaler, EmptyMetadata),
                                                       File("ok", NoneObj, new_metadata))
                                       /\ last' = TrainReturned("success", Len(cycles))
    /\ before' = Snapshot(disk, model, scaler)
    /\ UNCHANGED <<cycles, today, origin, env, pc, saveFlag, testIdx, impl, peer>>

-----------------------------------------------------------------------------
(* The other request: predict.py lines 81 and 135-136 in a second worker.  *)
(* Nothing in train, save_model_artifacts or load_model_artifacts takes a  *)
(* lock, so its steps interleave with the caller's.                        *)

\* predictor = CyclePredictor(): the files are read as the caller's save has
\* left them so far
PeerConstruct ==
    /\ env = "concurrent"
    /\ peer.pc = "absent"
    /\ \E view \in DiskViews(disk, pc) :
         LET c == Construct(view, TRUE)
         IN  peer' = Peer("ready", c.model, c.scaler, c.metadata)
    /\ UNCHANGED <<cycles, today, model, scaler, metadata, origin, disk, env, pc,
                   saveFlag, testIdx, last, impl, before>>

\* predictor.train(cycle_dicts) up to the call of save_model_artifacts: the
\* split and the two fits touch the other instance only
PeerTrain ==
    /\ env = "concurrent"
    /\ peer.pc = "ready"
    /\ Len(cycles) >= MIN_CYCLES_FOR_TRAINING
    /\ ~preprocess_data(cycles).raised
    /\ LET X == preprocess_data(cycles).val.X
           n == Len(X)
       IN  /\ n - NTest(n) > 0
           /\ \E T \in SUBSET (1..n) :
                LET idx == SetToSeq((1..n) \ T)
                IN  /\ Cardinality(T) = NTest(n)
                    /\ peer' = Peer("save_model",
                                    Obj("RF", TRUE, "echo", NFeatures, 0, 0, OtherRun),
                                    Obj("Scaler", TRUE, "", NFeatures,
                                        MeanOver(X, idx, "prev_cycle_length"),
                                        MeanOver(X, idx, "prev_period_length"), OtherRun),
                                    Meta("trained", OtherRun, Len(cycles)))
    /\ UNCHANGED <<cycles, today, model, scaler, metadata, origin, disk, env, pc,
                   saveFlag, testIdx, last, impl, before>>

\* ml_utils.py line 46 in the other request
PeerSaveModel ==
    /\ peer.pc = "save_model"
    /\ disk' = [disk EXCEPT !.model = File("ok", peer.model, EmptyMetadata)]
    /\ peer' = [peer EXCEPT !.pc = "save_scaler"]
    /\ UNCHANGED <<cycles, today, model, scaler, metadata, origin, env, pc,
                   saveFlag, testIdx, last, impl, before>>

\* ml_utils.py line 47 in the other request
PeerSaveScaler ==
    /\ peer.pc = "save_scaler"
    /\ disk' = [disk EXCEPT !.scaler = File("ok", peer.scaler, EmptyMetadata)]
    /\ peer' = [peer EXCEPT !.pc = "save_metadata"]
    /\ UNCHANGED <<cycles, today, model, scaler, metadata, origin, env, pc,
                   saveFlag, testIdx, last, impl, before>>

\* ml_utils.py lines 50-51 in the other request; its handler returns and
\* its instance is dropped
PeerSaveMetadata ==
    /\ peer.pc = "save_metadata"
    /\ disk' = [disk EXCEPT !.metadata = File("ok", NoneObj, peer.metadata)]
    /\ peer' = PeerDone
    /\ UNCHANGED <<cycles, today, model, scaler, metadata, origin, env, pc,
                   saveFlag, testIdx, last, impl, before>>

Next ==
    \/ NewInstance
    \/ Predict
    \/ ServicePredict
    \/ ServiceTrain
    \/ AimlPredict
    \/ AimlTrain
    \/ TrainCall
    \/ TrainFitScaler
    \/ TrainFitModel
    \/ TrainSaveModel
    \/ TrainSaveScaler
    \/ TrainSaveMetadata
    \/ PeerConstruct
    \/ PeerTrain
    \/ PeerSaveModel
    \/ PeerSaveScaler
    \/ PeerSaveMetadata

Spec == Init /\ [][Next]_vars

-----------------------------------------------------------------------------
(* Properties *)

ByCollaborator(p) == p.model_used = "gemini_ai"

\* A predict call of the copies that label their strategy has returned, and
\* the optional collaborator did not supply the answer.
EngineAnswered(impls) ==
    /\ last.op = "predict"
    /\ impl \in impls
    /\ last.pred.kind = "returned"
    /\ ~ByCollaborator(last.pred)

Loaded(o) == o.cls # "None"

\* Feature extraction, scaling or inference raises on the history cs
MLComputationFails(cs, m, sc) ==
    LET pre == preprocess_data(cs)
    IN  \/ pre.raised
        \/ LET X_scaled == transform(sc, pre.val.X[Len(pre.val.X)])
           IN  \/ X_scaled.raised
               \/ regress(m, X_scaled.val).raised

Remove(s, i) == SubSeq(s, 1, i - 1) \o SubSeq(s, i + 1, Len(s))

Swap(s, i) == [s EXCEPT ![i] = s[i + 1], ![i + 1] = s[i]]

Reverse(s) == [i \in 1..Len(s) |-> s[Len(s) + 1 - i]]

RECURSIVE Perms(_)
Perms(s) ==
    IF s = <<>> THEN { <<>> }
    ELSE UNION { { <<s[i]>> \o q : q \in Perms(Remove(s, i)) } : i \in 1..Len(s) }

\* Every permutation of a history of up to MaxLen records; of a longer
\* one its reversal and its adjacent transpositions.
Rearrangements(s) ==
    IF Len(s) <= MaxLen THEN Perms(s)
    ELSE {Reverse(s)} \cup { Swap(s, i) : i \in 1..(Len(s) - 1) }

DistinctStarts(cs) ==
    \A i, j \in 1..Len(cs) : i # j => cs[i].start_date # cs[j].start_date

SameUpToTrace(a, b) == [a EXCEPT !.trace = <<>>] = [b EXCEPT !.trace = <<>>]

\* What train does with a history before the split: the exception it
\* raises, or the feature rows and targets it goes on with.
TrainEntry(cs) ==
    IF Len(cs) < MIN_CYCLES_FOR_TRAINING THEN Raised("ValueError")
    ELSE preprocess_data(cs)

\* predict and train of the backend engine agree on cycles and on q
SortInvariantOn(q) ==
    /\ last.op = "predict" /\ ~ByCollaborator(last.pred) =>
         SameUpToTrace(predict(q, today, model, scaler, metadata, "off", NoAnswer),
                       last.pred)
    /\ last.op = "train" => TrainEntry(q) = TrainEntry(cycles)

\* The states a regressor and a scaler can be in
Regressors ==
    {NoneObj, NewRegressor}
    \cup { Obj("RF", TRUE, k, nf, 0, 0, v) :
             k \in RegressorKinds, nf \in {NFeatures, AimlNFeatures},
             v \in {EarlierRun, ThisRun} }
Scalers ==
    {NoneObj, NewScaler}
    \cup { Obj("Scaler", TRUE, "", nf, 30, 5, v) :
             nf \in {NFeatures, AimlNFeatures}, v \in {EarlierRun, ThisRun} }

\* The zero-history default counted from the date td
EmptyDefault(p, td) ==
    /\ p.kind = "returned"
    /\ p.model_used = "fallback"
    /\ p.cycle_length = Num(28, 1, FALSE)
    /\ p.next_period_date = IsoFormat(td + 28)
    /\ p.confidence = "low"
    /\ p.ovulation_day = IsoFormat(td + 14)
    /\ p.fertile_start = IsoFormat(td + 9)
    /\ p.fertile_end = IsoFormat(td + 15)

\* C1: predict never raises: every predict call, of the backend engine and
\* of the aiml copy, on any history and in any model state, returns a
\* result to its caller.
C1_PredictNeverRaises ==
    (last.op = "predict" /\ impl \in {"backend", "aiml"}) => last.pred.kind = "returned"

\* C2: strategy priority.  When the collaborator has not answered, a result
\* of predict is labelled "ml_model" if and only if a regressor and a scaler
\* are loaded, the history has at least 2 records and feature extraction,
\* scaling and inference did not fail; otherwise it is labelled "average"
\* or "fallback".
C2_StrategyPriority ==
    EngineAnswered({"backend", "service"}) =>
        /\ last.pred.model_used \in {"ml_model", "average", "fallback"}
        /\ last.pred.model_used = "ml_model" <=>
             /\ Loaded(model)
             /\ Loaded(scaler)
             /\ Len(cycles) >= 2
             /\ ~MLComputationFails(cycles, model, scaler)

C2_Witness ==
    /\ EngineAnswered({"backend"})
    /\ last.pred.model_used = "ml_model"
    /\ Len(cycles) >= 3

\* C3: the average strategy needs two records: a result is labelled
\* "average" only if the history has at least 2 records, and a history of
\* exactly one record gets the label "fallback" with confidence "low".
C3_AverageNeedsTwoRecords ==
    EngineAnswered({"backend", "service"}) =>
        /\ last.pred.model_used = "average" => Len(cycles) >= 2
        /\ Len(cycles) = 1 =>
             last.pred.model_used = "fallback" /\ last.pred.confidence = "low"

C5_ConfidenceFromEstimator ==
    EngineAnswered({"backend"}) =>
        last.pred.confidence =
            IF last.pred.model_used = "fallback" THEN "low"
            ELSE calculate_confidence(Len(cycles))

\* C6: for the empty history predict returns model_used "fallback", a
\* predicted length of 28, next_period_date = today + 28 days, confidence
\* "low", ovulation on today + 14 and a fertile window from today + 9 to
\* today + 15, whatever the regressor, the scaler and the collaborator are.
C6_EmptyHistoryDefault ==
    cycles = <<>> =>
        /\ last.op = "predict" /\ impl = "backend" => EmptyDefault(last.pred, today)
        /\ \A m \in Regressors, sc \in Scalers, g \in GeminiOutcomes :
             EmptyDefault(predict(<<>>, today, m, sc, metadata, g, NoAnswer), today)
        /\ EmptyDefault(service_fallback_prediction(<<>>, today, <<>>), today)

C6_Witness ==
    /\ last.op = "predict"
    /\ impl = "backend"
    /\ cycles = <<>>
    /\ model.fitted
    /\ last.pred.next_period_date = <<2024, 3, 1>>
    /\ last.pred.ovulation_day = <<2024, 2, 16>>

\* C7 as stated: for every history and every permutation of it, histories
\* with records that share a start_date included, predict returns the same
\* result and train goes on with the same feature rows, targets and status.
C7_SortInvariance ==
    impl = "backend" => \A q \in Rearrangements(cycles) : SortInvariantOn(q)

\* C7 amended: sort invariance for the histories whose start dates are
\* pairwise distinct: predict returns the same result on every permutation,
\* and train goes on with the same feature rows, targets and status.
C7_SortInvarianceDistinctStarts ==
    (impl = "backend" /\ DistinctStarts(cycles)) =>
        \A q \in Rearrangements(cycles) : SortInvariantOn(q)

C7_Witness ==
    /\ EngineAnswered({"backend"})
    /\ last.pred.model_used = "ml_model"
    /\ DistinctStarts(cycles)
    /\ Len(cycles) >= 3
    /\ cycles # SortByStart(cycles)

\* C8: train always returns a structured result with status "success",
\* "insufficient_data" or "error"; no exception escapes it.
C8_TrainAlwaysReturnsStatus ==
    (last.op = "train" /\ impl = "backend" /\ last.train.kind # "running") =>
        /\ last.train.kind = "returned"
        /\ last.train.status \in {"success", "insufficient_data", "error"}

\* C9: train with fewer than 3 cycles returns the status
\* "insufficient_data"; train with 3 or more cycles is not rejected as
\* insufficient.
C9_TooFewCyclesIsAStatus ==
    (last.op = "train" /\ impl = "backend" /\ last.train.kind # "running") =>
        /\ Len(cycles) < MIN_CYCLES_FOR_TRAINING =>
             last.train.kind = "returned" /\ last.train.status = "insufficient_data"
        /\ Len(cycles) >= MIN_CYCLES_FOR_TRAINING =>
             last.train.status # "insufficient_data"

\* C10: round trip: a predict call on the same history that comes right
\* after a train call that returned success, on the same instance or on an
\* instance that has just loaded the saved files, is answered by the ML
\* strategy unless the collaborator answers first.
C10_RoundTrip ==
    (EngineAnswered({"backend"}) /\ last.after_success) =>
        last.pred.model_used = "ml_model"

C10_Witness ==
    /\ EngineAnswered({"backend"})
    /\ last.after_success
    /\ origin = "loaded"
    /\ model.ver = ThisRun
    /\ last.pred.model_used = "ml_model"

SavePositions == {"save_model", "save_scaler", "save_metadata"}

\* The run each of the three files comes from
RunsOnDisk(d) == {d.model.obj.ver, d.scaler.obj.ver, d.metadata.meta.last_trained}

\* C11: a concurrent reader never observes a torn artifact: an instance that
\* another request builds from the files while a train-then-save sequence
\* runs holds the regressor and the scaler of one and the same training,
\* never the regressor of one paired with the scaler of another.
C11_NoTornRead ==
    (peer.pc = "ready" /\ Loaded(peer.model) /\ Loaded(peer.scaler)) =>
        peer.model.ver = peer.scaler.ver

\* C12: a save that fails partway leaves the stored artifact set intact:
\* when the set on disk before the train call was complete, a load after
\* the failed save returns exactly that regressor, scaler and metadata.
C12_FailedSaveKeepsStoredFiles ==
    ( /\ last.op = "train"
      /\ impl = "backend"
      /\ last.train.exc = "OSError"
      /\ before.taken
      /\ ~load_model_artifacts(before.files).raised ) =>
        load_model_artifacts(disk) = load_model_artifacts(before.files)

\* C13: a training run on enough cycles that fails at the split, a fit or
\* the save leaves the regressor and the scaler in memory as they were
\* before the call, and reports the failure as the status "error".
C13_FailedTrainKeepsActivePair ==
    ( /\ last.op = "train"
      /\ impl \in {"backend", "service"}
      /\ before.taken
      /\ Len(cycles) >= MIN_CYCLES_FOR_TRAINING
      /\ last.train.kind \in {"raised", "returned"}
      /\ last.train.status # "success" ) =>
        /\ model = before.model
        /\ scaler = before.scaler
        /\ last.train.kind = "returned"
        /\ last.train.status = "error"

\* C14: at most one training run is in flight: the train call of one
\* request is never between its split and the end of its save while the
\* other request is inside its save, and once both are through, the three
\* files come from one single training run.
C14_OneTrainingInFlight ==
    env = "concurrent" =>
        /\ ~(pc # "idle" /\ peer.pc \in SavePositions)
        /\ (pc = "idle" /\ peer.pc \notin SavePositions) =>
             Cardinality(RunsOnDisk(disk)) = 1

\* C15: loading never raises past the load step: an instance that has just
\* been constructed over files of which one is missing or cannot be
\* deserialized holds no regressor and no scaler.
C15_FailedLoadLeavesUntrained ==
    ( /\ last.op \in {"none", "new"}
      /\ env # "concurrent"
      /\ impl \in {"backend", "service"}
      /\ load_model_artifacts(disk).raised ) =>
        model = NoneObj /\ scaler = NoneObj

ValidHistory(cs) == \A i \in 1..Len(cs) : cs[i].period # "bad"

\* x is the mean of the gaps, brought into 21..45
IsClampedMean(x, gaps) ==
    LET total == SumSeq(gaps)
        n == Len(gaps)
    IN  /\ x.present
        /\ IF total > 45 * n THEN x.num = 45 * x.den
           ELSE IF total < 21 * n THEN x.num = 21 * x.den
           ELSE x.num * n = total * x.den

\* C16: an instance constructed over corrupted or missing artifact files and
\* not trained since answers predict on 5 valid cycles through the average
\* strategy: no exception, model_used "average", and a predicted length
\* equal to the mean gap between start dates clamped to [21, 45].
C16_CorruptFilesAverage ==
    ( /\ last.op = "predict"
      /\ impl = "backend"
      /\ ~ByCollaborator(last.pred)
      /\ origin = "load_failed"
      /\ metadata = DefaultMetadata
      /\ Len(cycles) = 5
      /\ ValidHistory(cycles) ) =>
        /\ last.pred.kind = "returned"
        /\ last.pred.model_used = "average"
        /\ IsClampedMean(last.pred.cycle_length, Gaps(SortByStart(cycles)))

C16_Witness ==
    /\ last.op = "predict"
    /\ impl = "backend"
    /\ cycles = FiveCycles
    /\ disk.model.st = "corrupt"
    /\ origin = "load_failed"
    /\ last.pred.model_used = "average"
    /\ last.pred.cycle_length = Num(119, 4, TRUE)
    /\ last.pred.next_period_date = <<2023, 5, 29>>

\* C17: for a history of exactly two records whose start dates are g days
\* apart, 21 <= g <= 45, and no trained model, predict uses the average
\* strategy and returns a predicted length of g, next_period_date = the
\* later start date + g days, and confidence "low".
C17_TwoRecordsLowConfidence ==
    ( /\ last.op = "predict"
      /\ impl \in {"backend", "service"}
      /\ ~ByCollaborator(last.pred)
      /\ ~Loaded(model)
      /\ Len(cycles) = 2
      /\ Gaps(SortByStart(cycles))[1] \in 21..45 ) =>
        LET g == Gaps(SortByStart(cycles))[1]
        IN  /\ last.pred.kind = "returned"
            /\ last.pred.model_used = "average"
            /\ last.pred.cycle_length.present
            /\ last.pred.cycle_length.num = g * last.pred.cycle_length.den
            /\ last.pred.next_period_date = IsoFormat(LastStart(cycles) + g)
            /\ last.pred.confidence = "low"

\* date.fromisoformat
FromIso(t) == ToOrdinal(t[1], t[2], t[3])

\* Dates around the ends of months and years, 2024-03-01 among them
FertileDates ==
    { ToOrdinal(2024, 3, 1), ToOrdinal(2023, 3, 1), ToOrdinal(2024, 1, 5),
      ToOrdinal(2023, 12, 31), ToOrdinal(2023, 7, 20) }

\* w is the fertile window of the next period date n
IsFertileWindowOf(w, n) ==
    /\ w.ovulation_day = IsoFormat(n - 14)
    /\ w.fertile_window_start = IsoFormat(n - 14 - 5)
    /\ w.fertile_window_end = IsoFormat(n - 14 + 1)

\* The two helpers on every date of FertileDates, whatever the cycle length
\* handed in, and on the date 2024-03-01
HelpersComputeFertileWindow ==
    /\ \A d \in FertileDates :
         /\ \A len \in {21, 28, 45} :
              IsFertileWindowOf(predict_fertile_window(d, len), d)
         /\ IsFertileWindowOf(calculate_fertile_window(d), d)
    /\ predict_fertile_window(ToOrdinal(2024, 3, 1), 28) =
         [ovulation_day |-> <<2024, 2, 16>>, fertile_window_start |-> <<2024, 2, 11>>,
          fertile_window_end |-> <<2024, 2, 17>>]

\* C18: fertile window arithmetic: in every result the engine computes, by
\* any strategy of any copy, and for every next_period_date and every cycle
\* length handed to the helper, ovulation_day = next_period_date - 14 days,
\* the window starts 5 days before ovulation and ends 1 day after it;
\* 2024-03-01 gives 2024-02-16, 2024-02-11 and 2024-02-17.
C18_FertileWindowArithmetic ==
    /\ EngineAnswered(Impls) =>
         IsFertileWindowOf([ovulation_day |-> last.pred.ovulation_day,
                            fertile_window_start |-> last.pred.fertile_start,
                            fertile_window_end |-> last.pred.fertile_end],
                           FromIso(last.pred.next_period_date))
    /\ HelpersComputeFertileWindow

C18_Witness ==
    /\ EngineAnswered({"backend"})
    /\ last.pred.model_used = "ml_model"
    /\ last.pred.fertile_start[2] # last.pred.fertile_end[2]

\* The collaborator was asked and predict went on without its answer
CollaboratorFellThrough ==
    /\ last.op = "predict"
    /\ impl = "backend"
    /\ last.pred.trace # <<>>
    /\ last.pred.trace[1] = "gemini"
    /\ ~ByCollaborator(last.pred)

\* C19: collaborator fall-through: when the collaborator is configured and
\* answers with a non-success result, with malformed output or by raising,
\* predict returns exactly the result it returns with no collaborator
\* configured, and does not fail.
C19_CollaboratorFallThrough ==
    CollaboratorFellThrough =>
        /\ last.pred.kind = "returned"
        /\ SameUpToTrace(last.pred,
                         predict(cycles, today, model, scaler, metadata, "off", NoAnswer))

C19_Witness ==
    /\ CollaboratorFellThrough
    /\ last.pred.model_used = "ml_model"
    /\ Len(last.pred.trace) = 2

\* C20: every result predict returns, the collaborator's successful answer
\* included, has model_used among "ml_model", "average" and "fallback" and
\* carries next_period_date, the three fertile-window dates, a predicted
\* cycle length and a confidence among low, medium and high.
C20_ResultShape ==
    (last.op = "predict" /\ impl = "backend" /\ last.pred.kind = "returned") =>
        /\ last.pred.model_used \in {"ml_model", "average", "fallback"}
        /\ last.pred.next_period_date # <<>>
        /\ last.pred.fertile_start # <<>>
        /\ last.pred.fertile_end # <<>>
        /\ last.pred.ovulation_day # <<>>
        /\ last.pred.cycle_length.present
        /\ last.pred.confidence \in {"low", "medium", "high"}

\* C21: the predicted cycle length predict reports is a whole number of
\* days whichever strategy answers, the average strategy with a mean gap
\* that is not whole (gaps 30 and 31) included.
C21_WholeCycleLength ==
    (EngineAnswered({"backend"}) /\ last.pred.cycle_length.present) =>
        last.pred.cycle_length.num % last.pred.cycle_length.den = 0

\* low < medium < high
Tier(c) == CASE c = "low" -> 1 [] c = "medium" -> 2 [] c = "high" -> 3 [] OTHER -> 0

\* predict of the copy i on the live instance, without the collaborator
PredictBy(i, cs) ==
    CASE i = "backend" -> predict(cs, today, model, scaler, metadata, "off", NoAnswer)
      [] i = "service" -> service_predict(cs, today, model, scaler)
      [] OTHER -> predict_next_cycle(cs, model, scaler)

\* The estimators of the engine and of the aiml copy over the lengths 0..8
EstimatorsAreMonotone ==
    \A n \in 0..(HighConfidenceCycles + 2) :
        /\ calculate_confidence(n) = IF n >= 6 THEN "high"
                                     ELSE IF n >= 3 THEN "medium" ELSE "low"
        /\ \A m \in 0..n :
              /\ Tier(calculate_confidence(m)) <= Tier(calculate_confidence(n))
              /\ Tier(get_confidence_interval(m)) <= Tier(get_confidence_interval(n))

\* C22: confidence is monotone in the history length: the estimator, with
\* the thresholds >= 6 high, >= 3 medium, else low, never gives a longer
\* history a lower tier, and with the model state unchanged no result of
\* predict for the first m records of a valid history has a higher tier than
\* the result for the whole history.
C22_ConfidenceMonotone ==
    /\ EstimatorsAreMonotone
    /\ (EngineAnswered(Impls) /\ ValidHistory(cycles)) =>
          \A m \in 0..Len(cycles) :
              LET shorter == PredictBy(impl, SubSeq(SortByStart(cycles), 1, m))
              IN  shorter.kind = "returned" =>
                      Tier(shorter.confidence) <= Tier(last.pred.confidence)

C22_Witness ==
    /\ EngineAnswered({"backend"})
    /\ Len(cycles) = 6
    /\ last.pred.model_used = "ml_model"
    /\ last.pred.confidence = "high"
    /\ PredictBy(impl, SubSeq(SortByStart(cycles), 1, 4)).confidence = "medium"
    /\ PredictBy(impl, SubSeq(SortByStart(cycles), 1, 1)).confidence = "low"

\* No two gaps of the sorted history are equal, so that a gap's value tells
\* which observation it is
DistinctGaps(cs) ==
    LET g == Gaps(SortByStart(cs))
    IN  \A i, k \in 1..Len(g) : i # k => g[i] # g[k]

\* C23: in every row the feature extractor emits, the target is the length
\* of the cycle after the one stored in prev_cycle_length: it is another
\* observation than prev_cycle_length and lies behind the gaps the row's
\* rolling mean and standard deviation are taken over.
C23_TargetFollowsFeatures ==
    ( /\ last.op = "train"
      /\ impl \in {"backend", "service"}
      /\ DistinctGaps(cycles)
      /\ ~preprocess_data(cycles).raised ) =>
        LET g == Gaps(SortByStart(cycles))
            X == preprocess_data(cycles).val.X
            y == preprocess_data(cycles).val.y
        IN  \A j \in 1..Len(X) :
              /\ y[j] # X[j].prev_cycle_length
              /\ \E k \in 1..(Len(g) - 1) :
                    /\ X[j].prev_cycle_length = g[k]
                    /\ y[j] = g[k + 1]
                    /\ X[j].n <= k

\* C24: for a valid history of N >= 3 records the feature extractor emits
\* exactly N - 2 rows and N - 2 targets, in ascending start_date order: the
\* j-th row is built from the first j + 1 gaps and the first j + 1 period
\* lengths of the history sorted by start_date.
C24_RowCount ==
    ( /\ last.op = "train"
      /\ impl \in {"backend", "service"}
      /\ ValidHistory(cycles)
      /\ Len(cycles) >= 3 ) =>
        LET pre == preprocess_data(cycles)
            s == SortByStart(cycles)
            g == Gaps(s)
            N == Len(cycles)
        IN  /\ ~pre.raised
            /\ Len(pre.val.X) = N - 2
            /\ Len(pre.val.y) = N - 2
            /\ \A i \in 1..(N - 1) : s[i].start_date <= s[i + 1].start_date
            /\ \A j \in 1..(N - 2) :
                  LET row == pre.val.X[j]
                  IN  /\ row.n = j + 1
                      /\ row.prev_cycle_length = s[j + 2].start_date - s[j + 1].start_date
                      /\ row.prev_period_length = PeriodOf(s[j + 1])
                      /\ row.cycle_sum = SumSeq(SubSeq(g, 1, j + 1))
                      /\ row.period_sum = SumSeq([k \in 1..(j + 1) |-> PeriodOf(s[k])])
                      /\ row.cycle_varnum = VarNum(SubSeq(g, 1, j + 1))

C24_Witness ==
    /\ last.op = "train"
    /\ impl = "backend"
    /\ Len(cycles) = 6
    /\ ValidHistory(cycles)
    /\ cycles # SortByStart(cycles)
    /\ Len(preprocess_data(cycles).val.X) = 4
    /\ Len(preprocess_data(cycles).val.y) = 4

\* C25: for a history of exactly 2 records the feature extractor returns
\* zero rows and zero targets and raises nothing; only a history of fewer
\* than 2 records fails with the insufficient-data error.
C25_TwoRecordsNoRows ==
    (last.op = "train" /\ impl = "service") =>
        LET pre == preprocess_data(cycles)
        IN  /\ Len(cycles) < 2 => (pre.raised /\ pre.exc = "ValueError")
            /\ Len(cycles) = 2 =>
                  (~pre.raised /\ pre.val.X = <<>> /\ pre.val.y = <<>>)

\* The ML strategy is entered on the history and fails: the truth test of
\* the regressor, feature extraction, scaling or inference raises
MLStrategyFails(cs, m, sc) ==
    /\ Loaded(m)
    /\ Loaded(sc)
    /\ Len(cs) >= 2
    /\ \/ Truthy(m).raised
       \/ MLComputationFails(cs, m, sc)

\* C26: when the ML strategy fails on a history of at least 2 records
\* (feature extraction error, scaler dimension mismatch, unfitted
\* regressor), predict returns the average strategy's result: model_used
\* "average" and the clamped mean gap of the same history.
C26_FailureDemotesToAverage ==
    ( /\ last.op = "predict"
      /\ impl \in {"backend", "service"}
      /\ ~ByCollaborator(last.pred)
      /\ MLStrategyFails(cycles, model, scaler) ) =>
        /\ last.pred.kind = "returned"
        /\ last.pred.model_used = "average"
        /\ IsClampedMean(last.pred.cycle_length, Gaps(SortByStart(cycles)))

\* C27: predict is stateless: no step that changes the regressor, the
\* scaler with its fitted parameters, the metadata or the artifact files is
\* a step of predict (which leaves its result in last), on any history and
\* whichever strategy answers or fails; the scaler is applied, never
\* refitted.
C27_PredictIsStateless ==
    [][( /\ last'.op = "predict"
         /\ model' # model \/ scaler' # scaler \/ metadata' # metadata \/ disk' # disk ) =>
          ~(Predict \/ ServicePredict)]_vars

C27_Witness ==
    /\ EngineAnswered({"backend"})
    /\ last.pred.model_used = "ml_model"
    /\ last.pred.trace = <<"regressor">>
    /\ model.ver = ThisRun
    /\ scaler.ver = ThisRun
    /\ scaler.fitted
    /\ disk.scaler.st = "ok"

\* C28: in every result of the ML or the average strategy the reported
\* quantities agree: next_period_date minus the latest start_date of the
\* history is the reported predicted cycle length in days, a fractional
\* clamped regressor output or mean gap included.
C28_DateAgreesWithLength ==
    ( /\ EngineAnswered({"backend", "service"})
      /\ last.pred.model_used \in {"ml_model", "average"} ) =>
        /\ last.pred.cycle_length.present
        /\ (FromIso(last.pred.next_period_date) - LastStart(cycles))
               * last.pred.cycle_length.den = last.pred.cycle_length.num

\* C29: with a history of exactly 2 records predict never answers with
\* model_used "ml_model": it returns the average strategy's result, and
\* with a fitted regressor and a scaler loaded it gets there through the
\* ML strategy, which is entered and fails at feature extraction.
C29_TwoRecordsNeverML ==
    ( /\ last.op = "predict"
      /\ impl = "backend"
      /\ ~ByCollaborator(last.pred)
      /\ Len(cycles) = 2 ) =>
        /\ last.pred.kind = "returned"
        /\ last.pred.model_used # "ml_model"
        /\ last.pred.model_used = "average"
        /\ (Loaded(model) /\ model.fitted /\ Loaded(scaler)) =>
              \E i \in 1..Len(last.pred.trace) : last.pred.trace[i] = "except"

C29_Witness ==
    /\ EngineAnswered({"backend"})
    /\ Len(cycles) = 2
    /\ model.fitted
    /\ model.nfeat = NFeatures
    /\ scaler.fitted
    /\ scaler.nfeat = NFeatures
    /\ preprocess_data(cycles).raised
    /\ last.pred.model_used = "average"
    /\ last.pred.trace = <<"except", "average">>

\* The attempt a occurs in the trace tr
Attempted(tr, a) == \E i \in 1..Len(tr) : tr[i] = a

\* C30: order of the attempts in predict: for the empty history neither the
\* collaborator nor the regressor is consulted; for a non-empty history the
\* collaborator, when configured, is the first attempt, its successful
\* answer ends the call, and the regressor and the average are reached only
\* when the collaborator has not answered.
C30_AttemptOrder ==
    (last.op = "predict" /\ impl = "backend") =>
        LET tr == last.pred.trace
        IN  /\ cycles = <<>> => tr = <<"default">>
            /\ cycles # <<>> =>
                  /\ \A i \in 1..Len(tr) : tr[i] = "gemini" => i = 1
                  /\ ~Attempted(tr, "default")
                  /\ ByCollaborator(last.pred) <=> tr = <<"gemini">>
                  /\ ( \/ Attempted(tr, "regressor")
                       \/ Attempted(tr, "except")
                       \/ Attempted(tr, "average") ) => ~ByCollaborator(last.pred)
                  /\ Attempted(tr, "regressor") => tr[Len(tr)] = "regressor"
                  /\ Attempted(tr, "average") => tr[Len(tr)] = "average"

C30_Witness ==
    /\ CollaboratorFellThrough
    /\ cycles # <<>>
    /\ Loaded(model)
    /\ last.pred.model_used = "average"
    /\ last.pred.trace = <<"gemini", "except", "average">>

====
